---- MODULE Spec2Model ----
(***************************************************************************)
(* Realtime layer of the group messaging backend: the socket.io gateway    *)
(* (authentication middleware, connection handler), the presence handlers  *)
(* (join / leave / disconnect) and the message handlers (send), together   *)
(* with the persisted group membership they consult.                       *)
(*                                                                         *)
(* Every handler is an async function.  A handler runs synchronously up    *)
(* to its next await; the awaited collaborator call reads or writes the    *)
(* store at that point, and the continuation runs as a later step.  Other  *)
(* connections' handlers, membership changes and disconnects interleave    *)
(* between a store access and the continuation that uses its result.       *)
(***************************************************************************)
EXTENDS Integers, Sequences, FiniteSets, Bags, TLC

(* ------------------------------ bounds --------------------------------- *)

\* handler invocations that may be suspended at an await at the same time
MaxPending == 2

\* messages the store may hold
MaxMessages == 1

MaxOrder == 2

(* ------------------------------ domains -------------------------------- *)

Conns == {"c1", "c2", "c3"}

Users == {"u1", "u2"}

\* groups that exist in the store
Groups == {"g1", "g2"}

\* "gX" is a well-formed id of no group, "bad" is not a valid ObjectId
GroupIds == Groups \cup {"gX", "bad"}

Undefined == "undefined"

Statuses == {"active", "pending", "banned"}

Email(u) == IF u = "u1" THEN "u1@example.com"
            ELSE IF u = "u2" THEN "u2@example.com" ELSE Undefined

Owner(g) == "u1"

\* the client behind each connection: two devices of u1, one device of u2
ClientUser(c) == IF c = "c3" THEN "u2" ELSE "u1"

TokenOf(u) == IF u = "u1" THEN "tok_u1" ELSE "tok_u2"

NoUser == [userId |-> Undefined, email |-> Undefined]

(* ------------------------------ errors --------------------------------- *)

AppError(cls, message, statusCode, errorCode) ==
    [cls |-> cls, message |-> message, statusCode |-> statusCode,
     errorCode |-> errorCode]

ValidationError(message, errors) ==
    AppError("ValidationError", message, 400, "VALIDATION_ERROR")

AuthenticationError(message, errorCode) ==
    AppError("AuthenticationError", message, 401, errorCode)

AuthorizationError(message, errorCode) ==
    AppError("AuthorizationError", message, 403, errorCode)

NotFoundError(message, errorCode) ==
    AppError("NotFoundError", message, 404, errorCode)

InternalError(message) ==
    AppError("InternalError", message, 500, "INTERNAL_SERVER_ERROR")

\* a plain Error thrown by a library or by verifyToken
PlainError(message) ==
    [cls |-> "Error", message |-> message, statusCode |-> 0,
     errorCode |-> Undefined]

NoError == [cls |-> "none", message |-> "", statusCode |-> 0,
            errorCode |-> Undefined]

\* JavaScript property read: a property the object does not have is undefined
Prop(obj, name) == IF name \in DOMAIN obj THEN obj[name] ELSE Undefined

(* ------------------------------ tokens --------------------------------- *)

Tokens == {"tok_u1", "tok_u2", "tok_expired", "tok_malformed", "tok_badsig"}

\* jwt.verify under the server secret
JwtVerify(token) ==
    IF token = "tok_u1" THEN [ok |-> TRUE, name |-> "", userId |-> "u1"]
    ELSE IF token = "tok_u2" THEN [ok |-> TRUE, name |-> "", userId |-> "u2"]
    ELSE IF token = "tok_expired"
         THEN [ok |-> FALSE, name |-> "TokenExpiredError", userId |-> Undefined]
    ELSE [ok |-> FALSE, name |-> "JsonWebTokenError", userId |-> Undefined]

VerifyToken(token) ==
    LET r == JwtVerify(token) IN
    IF r.ok
    THEN [ok |-> TRUE, err |-> NoError,
          decoded |-> [userId |-> r.userId, email |-> Email(r.userId)]]
    ELSE [ok |-> FALSE, decoded |-> NoUser,
          err |-> IF r.name = "TokenExpiredError"
                  THEN PlainError("Token has expired")
                  ELSE PlainError("Invalid token")]

\* what the client puts in the handshake: auth.token and the authorization
\* header ("" is the empty string, Undefined an absent field)
AuthValues == {Undefined, ""} \cup Tokens

\* the authorization header as its scheme prefix and the rest; absent: << >>
NoHeader == << >>

HeaderValues == {NoHeader} \cup {<<"Bearer ", t>> : t \in Tokens \cup {""}}

Handshakes == [auth : AuthValues, authorization : HeaderValues]

\* the handshakes of a client that presents its user's token, in auth.token
\* or in the authorization header
GoodHandshakes(c) ==
    {[auth |-> TokenOf(ClientUser(c)), authorization |-> NoHeader],
     [auth |-> Undefined,
      authorization |-> <<"Bearer ", TokenOf(ClientUser(c))>>]}

\* a test for an absent field only, which lets the empty string through
FalsyOnlyUndefined(v) == v = Undefined

\* !v for a string or undefined
Falsy(v) == v = Undefined \/ v = ""

\* a token extraction that prefers the authorization header
ExtractTokenHeaderFirst(hs) ==
    IF hs.authorization # NoHeader /\ ~Falsy(hs.authorization[2])
    THEN hs.authorization[2]
    ELSE hs.auth

\* socket.handshake.auth.token || headers.authorization?.replace('Bearer ', '')
ExtractToken(hs) ==
    IF ~Falsy(hs.auth) THEN hs.auth
    ELSE IF hs.authorization = NoHeader THEN Undefined
    ELSE hs.authorization[2]

(* ------------------------------- state --------------------------------- *)

VARIABLES
    sockets,            \* connection -> [state, user]
    rooms,              \* group id -> connections in room group:<id>
    globalActiveUsers,  \* Map userId -> Set of group ids
    members,            \* persisted: group -> user -> status or "none"
    messages,           \* persisted messages, in the order they were saved
    pending,            \* bag of handler invocations suspended at an await
    out                 \* what the last gateway step sent: acks, broadcasts

vars == <<sockets, rooms, globalActiveUsers, members, messages, pending, out>>

NoMessage == [id |-> 0, group |-> Undefined, sender |-> Undefined,
              content |-> Undefined]

Ack(success, message, error, data) ==
    [success |-> success, message |-> message, error |-> error, data |-> data,
     users |-> << >>]

\* the ack of group:active_users, whose data is a list of users
WithUsers(a, users) == [a EXCEPT !.users = users]

\* payload fields only some events carry
NoInfo == [email |-> Undefined, socketId |-> Undefined,
           messageId |-> Undefined, typing |-> FALSE, timestamp |-> FALSE]

\* an emit that does not name the user it is sent for
EmitUnattributed(event, to, userId, groupId, msg) ==
    [event |-> event, to |-> to, userId |-> Undefined, groupId |-> groupId,
     msg |-> msg, info |-> NoInfo]

Emit(event, to, userId, groupId, msg) ==
    [event |-> event, to |-> to, userId |-> userId, groupId |-> groupId,
     msg |-> msg, info |-> NoInfo]

\* an emit whose payload also carries the sender's email, the socket id, a
\* message id, the typing flag or a server timestamp
WithInfo(e, email, socketId, messageId, typing, timestamp) ==
    [e EXCEPT !.info = [email |-> email, socketId |-> socketId,
                        messageId |-> messageId, typing |-> typing,
                        timestamp |-> timestamp]]

\* op: the handler; step: which of its segments ran; lookup: what the
\* membership lookup this segment acted on said about the caller
NoHandshake == [auth |-> Undefined, authorization |-> NoHeader]

NoInput == [content |-> Undefined, hs |-> NoHandshake]

Out(op, step, conn, groupId, lookup, acks, emits, calls) ==
    [op |-> op, step |-> step, conn |-> conn, groupId |-> groupId,
     lookup |-> lookup, acks |-> acks, emits |-> emits, calls |-> calls,
     input |-> NoInput, escaped |-> FALSE]

\* a callback that delivers each ack twice
ReplyTwice(cb, o) ==
    IF cb THEN [o EXCEPT !.acks = @ \o @]
    ELSE [o EXCEPT !.acks = << >>, !.escaped = TRUE]

\* callback(ack) at the end of a handler path, where cb tells whether the
\* client sent an ack callback: without one the call throws a TypeError, in
\* or after the handler's last catch block, and the handler's promise rejects
Reply(cb, o) ==
    IF cb THEN o ELSE [o EXCEPT !.acks = << >>, !.escaped = TRUE]

\* an event sent without a payload: data is undefined
NoData == << >>

HasData(data) == DOMAIN data # {}

\* the output of a step together with what the client sent besides groupId
WithInput(o, content, hs) ==
    [o EXCEPT !.input = [content |-> content, hs |-> hs]]

PendingCount == BagCardinality(pending)

PendingOps(op) ==
    LET S == {p \in BagToSet(pending) : p.op = op}
    IN BagCardinality([p \in S |-> pending[p]])

RECURSIVE SetToSeq(_)
SetToSeq(S) == IF S = {} THEN <<>>
               ELSE LET x == CHOOSE y \in S : TRUE
                    IN <<x>> \o SetToSeq(S \ {x})

\* number of emits of the last step that were delivered to connection c
Delivered(o, c, event) ==
    Cardinality({i \in 1..Len(o.emits) :
                    o.emits[i].event = event /\ c \in o.emits[i].to})

(* --------------------------- socket.io rooms --------------------------- *)

\* a broadcast that skips the sockets of users who are no longer active
\* members of the group
SocketToActiveOnly(rm, c, g) ==
    {d \in rm[g] \ {c} :
        g \in Groups /\ members[g][sockets[d].user.userId] = "active"}

\* a broadcast that is dropped once the sender's socket has closed
SocketToIfConnected(rm, c, g) ==
    IF sockets[c].state = "connected" THEN rm[g] \ {c} ELSE {}

\* a broadcast that echoes to the sender as well
SocketToWithSender(rm, c, g) == rm[g]

\* socket.to(`group:${g}`): every socket in the room except the sender
SocketTo(rm, c, g) == rm[g] \ {c}

\* a broadcast to every connected socket of the namespace
IoInEveryone(rm, g) == {c \in Conns : sockets[c].state = "connected"}

\* a room-wide broadcast that reaches no one
IoInNobody(rm, g) == {}

\* io.in(`group:${g}`): every socket in the room
IoIn(rm, g) == rm[g]

\* socket.join: a socket that has been closed no longer joins rooms
SocketJoin(rm, c, g) ==
    IF sockets[c].state = "connected"
    THEN [rm EXCEPT ![g] = @ \cup {c}]
    ELSE rm

SocketLeave(rm, c, g) == [rm EXCEPT ![g] = @ \ {c}]

LeaveAll(rm, c) == [g \in DOMAIN rm |-> rm[g] \ {c}]

(* ---------------------------- presence map ----------------------------- *)

MapHas(m, k) == k \in DOMAIN m

MapSet(m, k, v) == [x \in DOMAIN m \cup {k} |-> IF x = k THEN v ELSE m[x]]

\* a delete that leaves the key in the map
MapDeleteNothing(m, k) == m

MapDelete(m, k) == [x \in DOMAIN m \ {k} |-> m[x]]

\* a join that starts the user's set again with the joined group alone
TrackJoinReset(m, userId, g) == MapSet(m, userId, {g})

\* handleJoinGroup: create the user's set when absent, then add the group
TrackJoin(m, userId, g) ==
    LET m1 == IF ~MapHas(m, userId) THEN MapSet(m, userId, {}) ELSE m
    IN MapSet(m1, userId, m1[userId] \cup {g})

\* a leave that keeps the user's set when it becomes empty
TrackLeaveNoDrop(m, userId, g) ==
    IF MapHas(m, userId) THEN MapSet(m, userId, m[userId] \ {g}) ELSE m

\* a leave that keeps the presence registry as it is
TrackLeaveKeep(m, userId, g) == m

\* handleLeaveGroup: delete the group, drop the user when the set is empty
TrackLeave(m, userId, g) ==
    IF MapHas(m, userId)
    THEN LET m1 == MapSet(m, userId, m[userId] \ {g})
         IN IF m1[userId] = {} THEN MapDelete(m1, userId) ELSE m1
    ELSE m

(* ------------------------- persisted membership ------------------------ *)

NoMembers == [u \in Users |-> "none"]

\* a save without the owner hook
PreSaveNothing(g, ms) == ms

\* pre('save'): the owner is always in the members array with status active
PreSave(g, ms) == [ms EXCEPT ![Owner(g)] = "active"]

GroupAddMember(g, ms, u, status) == PreSave(g, [ms EXCEPT ![u] = status])

GroupRemoveMember(g, ms, u) == PreSave(g, [ms EXCEPT ![u] = "none"])

GroupBanMember(g, ms, u) ==
    PreSave(g, IF ms[u] # "none" THEN [ms EXCEPT ![u] = "banned"] ELSE ms)

GroupApproveMember(g, ms, u) ==
    PreSave(g, IF ms[u] = "pending" THEN [ms EXCEPT ![u] = "active"] ELSE ms)

\* a membership test that only asks for an entry in the members array
IsMemberAnyStatus(status) == status # "none"

\* group.members.some(m => m.user.toString() === userId && m.status === 'active')
IsMember(status) == status = "active"

\* A lookup result as the handler that awaits it uses it: the error thrown,
\* or the caller's entry in the members array of the document returned
Found(status) == [ok |-> TRUE, status |-> status, err |-> NoError]

Thrown(err) == [ok |-> FALSE, status |-> "none", err |-> err]

\* groupService.getGroupById; dbFails is a failure of the store itself
GetGroupById(groupId, userId, dbFails) ==
    IF groupId = "bad"
    THEN Thrown(ValidationError("Invalid group ID format", "INVALID_ID"))
    ELSE IF dbFails
    THEN Thrown(InternalError("Group service error"))
    ELSE IF groupId \notin Groups
    THEN Thrown(NotFoundError("Group not found", "GROUP_NOT_FOUND"))
    ELSE Found(members[groupId][userId])

\* Group.findById returned null
NullDoc == [ok |-> TRUE, status |-> "null", err |-> NoError]

\* Group.findById as messageService.sendMessage calls it: the document, null
\* for an id of no group, or the driver's error
GroupFindById(groupId, userId, dbFails) ==
    IF groupId = "bad" THEN Thrown(PlainError("CastError"))
    ELSE IF dbFails THEN Thrown(PlainError("MongoError"))
    ELSE IF groupId \notin Groups THEN NullDoc
    ELSE Found(members[groupId][userId])

\* content.trim()
Trim(content) == IF content = " " THEN "" ELSE content

\* what a lookup told the handler about the caller in this group
LookupClass(res) ==
    IF res.ok THEN (IF res.status = "null" THEN "notfound" ELSE res.status)
    ELSE IF res.err.cls = "NotFoundError" THEN "notfound"
    ELSE IF res.err.cls = "ValidationError" THEN "invalid"
    ELSE "dberror"

Pending(op, phase, c, groupId, content, res, msg) ==
    [op |-> op, phase |-> phase, conn |-> c, groupId |-> groupId,
     content |-> content, res |-> res, msg |-> msg, cb |-> TRUE]

\* the frame of a handler that was called with or without an ack callback
WithCb(p, cb) == [p EXCEPT !.cb = cb]

(* ------------------------------- Init ---------------------------------- *)

\* g1 as createGroup leaves it (the owner alone), g2 with both users active
InitMembers ==
    [g \in Groups |->
        PreSave(g, IF g = "g2" THEN [u \in Users |-> "active"] ELSE NoMembers)]

Init ==
    /\ sockets = [c \in Conns |-> [state |-> "idle", user |-> NoUser]]
    /\ rooms = [g \in GroupIds |-> {}]
    /\ globalActiveUsers = << >>
    /\ members = InitMembers
    /\ messages = << >>
    /\ pending = EmptyBag
    /\ out = Out("init", "done", Undefined, Undefined, "skipped",
                 << >>, << >>, << >>)

(* --------------------- gateway: handshake, connection ------------------ *)

\* a middleware that lets a connection through when verification fails
AuthMiddlewareNoReject(hs) ==
    LET token == ExtractToken(hs) IN
    IF Falsy(token)
    THEN [err |-> AuthenticationError("Authentication error", "NO_AUTH_TOKEN"),
          user |-> NoUser]
    ELSE LET v == VerifyToken(token) IN
         [err |-> NoError,
          user |-> [userId |-> v.decoded.userId, email |-> v.decoded.email]]

\* createAuthMiddleware: the error handed to next(), or the attached user
AuthMiddleware(hs) ==
    LET token == ExtractToken(hs) IN
    IF Falsy(token)
    THEN [err |-> AuthenticationError("Authentication error", "NO_AUTH_TOKEN"),
          user |-> NoUser]
    ELSE LET v == VerifyToken(token) IN
         IF v.ok
         THEN [err |-> NoError,
               user |-> [userId |-> v.decoded.userId, email |-> v.decoded.email]]
         ELSE [err |-> AuthenticationError("Invalid or expired token",
                                           "INVALID_TOKEN"),
               user |-> NoUser]

\* a client opens a connection: middleware, then io.on('connection')
Connect(c, hs) ==
    /\ sockets[c].state = "idle"
    /\ LET r == AuthMiddleware(hs) IN
       IF r.err = NoError
       THEN /\ sockets' = [sockets EXCEPT ![c] = [state |-> "connected",
                                                  user |-> r.user]]
            /\ out' = WithInput(
                         Out("connect", "done", c, Undefined, "skipped", << >>,
                             <<WithInfo(Emit("connect:success", {c},
                                             r.user.userId, Undefined,
                                             NoMessage),
                                        r.user.email, c, Undefined, FALSE,
                                        TRUE)>>,
                             << >>),
                         Undefined, hs)
       ELSE /\ sockets' = [sockets EXCEPT ![c] = [state |-> "rejected",
                                                  user |-> r.user]]
            /\ out' = WithInput(
                         Out("connect", "done", c, Undefined, r.err.errorCode,
                             << >>, << >>, << >>),
                         Undefined, hs)
    /\ UNCHANGED <<rooms, globalActiveUsers, members, messages, pending>>

\* handleDisconnect, run by the 'disconnect' event after the socket has
\* left all its rooms
Disconnect(c) ==
    /\ sockets[c].state = "connected"
    /\ LET userId == sockets[c].user.userId
           rm == LeaveAll(rooms, c)
       IN /\ sockets' = [sockets EXCEPT ![c].state = "closed"]
          /\ rooms' = rm
          /\ IF userId # Undefined /\ MapHas(globalActiveUsers, userId)
             THEN /\ out' = Out("disconnect", "done", c, Undefined, "skipped",
                        << >>,
                        LET groups == SetToSeq(globalActiveUsers[userId])
                        IN [i \in 1..Len(groups) |->
                               Emit("user:inactive",
                                    SocketTo(rm, c, groups[i]),
                                    userId, groups[i], NoMessage)],
                        << >>)
                  /\ globalActiveUsers' = MapDelete(globalActiveUsers, userId)
             ELSE /\ out' = Out("disconnect", "done", c, Undefined, "skipped",
                                << >>, << >>, << >>)
                  /\ UNCHANGED globalActiveUsers
    /\ UNCHANGED <<members, messages, pending>>

(* ------------------------------ presence ------------------------------- *)

\* a gateway that takes no event while a handler is waiting
DispatchOneAtATime(c) ==
    /\ sockets[c].state = "connected"
    /\ pending = EmptyBag

\* socket.on(event, handler): the handler of an event is called when the
\* event of a connected socket arrives, whatever other handlers are waiting
Dispatch(c) == sockets[c].state = "connected"

\* handleJoinGroup up to its await: validation, then the membership lookup
JoinGroup(c, data, cb, dbFails) ==
    /\ Dispatch(c)
    /\ IF ~HasData(data)
       THEN /\ out' = Reply(cb, Out("join", "start", c, Undefined, "skipped",
                          <<Ack(FALSE, "Failed to join group room",
                                "INTERNAL_ERROR", NoMessage)>>, << >>, << >>))
            /\ UNCHANGED pending
       ELSE IF Falsy(data.groupId)
       THEN /\ out' = Reply(cb, Out("join", "start", c, data.groupId,
                          "skipped",
                          <<Ack(FALSE, "Group ID is required", "INVALID_INPUT",
                                NoMessage)>>, << >>, << >>))
            /\ UNCHANGED pending
       ELSE /\ PendingCount < MaxPending
            /\ pending' = pending (+) SetToBag({
                   WithCb(Pending("join", "lookup", c, data.groupId, Undefined,
                                  GetGroupById(data.groupId,
                                               sockets[c].user.userId, dbFails),
                                  NoMessage), cb)})
            /\ out' = Out("join", "start", c, data.groupId, "skipped", << >>,
                          << >>, <<"getGroupById">>)
    /\ UNCHANGED <<sockets, rooms, globalActiveUsers, members, messages>>

\* handleJoinGroup after its await
JoinGroupResume(p) ==
    /\ p \in BagToSet(pending)
    /\ p.op = "join"
    /\ pending' = pending (-) SetToBag({p})
    /\ LET c == p.conn
           g == p.groupId
           userId == sockets[c].user.userId
           cls == LookupClass(p.res)
       IN IF ~p.res.ok
          THEN /\ out' = Reply(p.cb, Out("join", "resume", c, g, cls,
                     <<IF p.res.err.cls = "NotFoundError"
                       THEN Ack(FALSE, "Group not found", "GROUP_NOT_FOUND",
                                NoMessage)
                       ELSE IF p.res.err.cls = "AuthorizationError"
                       THEN Ack(FALSE, p.res.err.message,
                                Prop(p.res.err, "code"), NoMessage)
                       ELSE Ack(FALSE, "Failed to join group room",
                                "INTERNAL_ERROR", NoMessage)>>,
                     << >>, << >>))
               /\ UNCHANGED <<rooms, globalActiveUsers>>
          ELSE IF ~IsMember(p.res.status)
          THEN LET err == AuthorizationError(
                              "You are not a member of this group",
                              "NOT_GROUP_MEMBER")
               IN /\ out' = Reply(p.cb, Out("join", "resume", c, g, cls,
                        <<Ack(FALSE, err.message, Prop(err, "code"),
                              NoMessage)>>, << >>, << >>))
                  /\ UNCHANGED <<rooms, globalActiveUsers>>
          ELSE LET rm == SocketJoin(rooms, c, g) IN
               /\ rooms' = rm
               /\ globalActiveUsers' = TrackJoin(globalActiveUsers, userId, g)
               /\ out' = Reply(p.cb, Out("join", "resume", c, g, cls,
                     <<Ack(TRUE, "Successfully joined group room", Undefined,
                           NoMessage)>>,
                     <<Emit("user:active", SocketTo(rm, c, g), userId, g,
                            NoMessage)>>,
                     << >>))
    /\ UNCHANGED <<sockets, members, messages>>

\* handleLeaveGroup: no await, runs to completion in one step
LeaveGroup(c, data, cb) ==
    /\ Dispatch(c)
    /\ LET userId == sockets[c].user.userId
           g == Prop(data, "groupId")
       IN IF ~HasData(data)
          THEN /\ out' = Reply(cb, Out("leave", "done", c, Undefined, "skipped",
                     <<Ack(FALSE, "Failed to leave group room",
                           "INTERNAL_ERROR", NoMessage)>>, << >>, << >>))
               /\ UNCHANGED <<rooms, globalActiveUsers>>
          ELSE IF Falsy(g)
          THEN /\ out' = Reply(cb, Out("leave", "done", c, g, "skipped",
                     <<Ack(FALSE, "Group ID is required", "INVALID_INPUT",
                           NoMessage)>>, << >>, << >>))
               /\ UNCHANGED <<rooms, globalActiveUsers>>
          ELSE LET rm == SocketLeave(rooms, c, g) IN
               /\ rooms' = rm
               /\ globalActiveUsers' = TrackLeave(globalActiveUsers, userId, g)
               /\ out' = Reply(cb, Out("leave", "done", c, g, "skipped",
                     <<Ack(TRUE, "Successfully left group room", Undefined,
                           NoMessage)>>,
                     <<Emit("user:inactive", SocketTo(rm, c, g), userId, g,
                            NoMessage)>>,
                     << >>))
    /\ UNCHANGED <<sockets, members, messages, pending>>

\* io.in(room).fetchSockets() mapped to {userId, email, status}: one entry
\* for each socket in the room
ActiveUsers(rm, g) ==
    LET socks == SetToSeq(IoIn(rm, g))
    IN [i \in 1..Len(socks) |->
           [userId |-> sockets[socks[i]].user.userId,
            email |-> sockets[socks[i]].user.email,
            status |-> "online"]]

\* handleGetActiveUsers up to its first await
GetActiveUsers(c, data, cb, dbFails) ==
    /\ Dispatch(c)
    /\ IF ~HasData(data)
       THEN /\ out' = Reply(cb, Out("active", "start", c, Undefined, "skipped",
                          <<Ack(FALSE, "Failed to get active users",
                                "INTERNAL_ERROR", NoMessage)>>, << >>, << >>))
            /\ UNCHANGED pending
       ELSE IF Falsy(data.groupId)
       THEN /\ out' = Reply(cb, Out("active", "start", c, data.groupId,
                          "skipped",
                          <<Ack(FALSE, "Group ID is required", "INVALID_INPUT",
                                NoMessage)>>, << >>, << >>))
            /\ UNCHANGED pending
       ELSE /\ PendingCount < MaxPending
            /\ pending' = pending (+) SetToBag({
                   WithCb(Pending("active", "lookup", c, data.groupId,
                                  Undefined,
                                  GetGroupById(data.groupId,
                                               sockets[c].user.userId, dbFails),
                                  NoMessage), cb)})
            /\ out' = Out("active", "start", c, data.groupId, "skipped", << >>,
                          << >>, <<"getGroupById">>)
    /\ UNCHANGED <<sockets, rooms, globalActiveUsers, members, messages>>

\* handleGetActiveUsers after the lookup: the membership check, then
\* fetchSockets, which collects the room's sockets when it is called
GetActiveUsersResume(p) ==
    /\ p \in BagToSet(pending)
    /\ p.op = "active"
    /\ pending' = pending (-) SetToBag({p})
    /\ LET c == p.conn
           g == p.groupId
           cls == LookupClass(p.res)
       IN IF ~p.res.ok
          THEN out' = Reply(p.cb, Out("active", "resume", c, g, cls,
                     <<IF p.res.err.cls = "NotFoundError"
                       THEN Ack(FALSE, "Group not found", "GROUP_NOT_FOUND",
                                NoMessage)
                       ELSE Ack(FALSE, "Failed to get active users",
                                "INTERNAL_ERROR", NoMessage)>>,
                     << >>, << >>))
          ELSE IF ~IsMember(p.res.status)
          THEN LET err == AuthorizationError(
                              "You are not a member of this group",
                              "NOT_GROUP_MEMBER")
               IN out' = Reply(p.cb, Out("active", "resume", c, g, cls,
                        <<Ack(FALSE, err.message, Prop(err, "code"),
                              NoMessage)>>, << >>, << >>))
          ELSE out' = Reply(p.cb, Out("active", "resume", c, g, cls,
                     <<WithUsers(Ack(TRUE, Undefined, Undefined, NoMessage),
                                 ActiveUsers(rooms, g))>>,
                     << >>, <<"fetchSockets">>))
    /\ UNCHANGED <<sockets, rooms, globalActiveUsers, members, messages>>

(* ------------------------------ messages ------------------------------- *)

\* an error handler that passes every error's own message and code on
HandleErrorLeaky(error, defaultMessage) ==
    Ack(FALSE, error.message, Prop(error, "code"), NoMessage)

\* handleError of the message handlers: the ack for an error that reached
\* the handler's outer catch
HandleError(error, defaultMessage) ==
    IF error.cls \in {"NotFoundError", "ValidationError", "AuthorizationError"}
    THEN Ack(FALSE, error.message, Prop(error, "code"), NoMessage)
    ELSE Ack(FALSE, defaultMessage, "INTERNAL_ERROR", NoMessage)

\* the inner catch of handleSendMessage, then the outer one
SendErrorAck(error) ==
    IF error.cls = "NotFoundError"
    THEN Ack(FALSE, "Group not found", "GROUP_NOT_FOUND", NoMessage)
    ELSE HandleError(error, "Error sending message")

\* handleSendMessage up to its first await: validation, membership lookup
SendMessageUpTo(c, data, cb, dbFails, bound) ==
    /\ Dispatch(c)
    /\ IF ~HasData(data)
       THEN /\ out' = Reply(cb, Out("send", "start", c, Undefined, "skipped",
                          <<HandleError(PlainError("TypeError"),
                                        "Error sending message")>>,
                          << >>, << >>))
            /\ UNCHANGED pending
       ELSE IF Falsy(data.groupId) \/ Falsy(data.content)
       THEN /\ out' = Reply(cb, WithInput(
                         Out("send", "start", c, data.groupId, "skipped",
                             <<Ack(FALSE,
                                   "Group ID and message content are required",
                                   "INVALID_INPUT", NoMessage)>>, << >>, << >>),
                         data.content, NoHandshake))
            /\ UNCHANGED pending
       ELSE /\ PendingCount < MaxPending
            /\ Len(messages) + PendingOps("send") < bound
            /\ pending' = pending (+) SetToBag({
                   WithCb(Pending("send", "lookup", c, data.groupId,
                                  data.content,
                                  GetGroupById(data.groupId,
                                               sockets[c].user.userId, dbFails),
                                  NoMessage), cb)})
            /\ out' = WithInput(
                         Out("send", "start", c, data.groupId, "skipped",
                             << >>, << >>, <<"getGroupById">>),
                         data.content, NoHandshake)
    /\ UNCHANGED <<sockets, rooms, globalActiveUsers, members, messages>>

SendMessage(c, data, cb, dbFails) ==
    SendMessageUpTo(c, data, cb, dbFails, MaxMessages)

\* handleSendMessage after the lookup: the membership check, then the call
\* of messageService.sendMessage, which reads the group again
SendMessageCheck(p, dbFails) ==
    /\ p \in BagToSet(pending)
    /\ p.op = "send" /\ p.phase = "lookup"
    /\ LET c == p.conn
           g == p.groupId
           userId == sockets[c].user.userId
           cls == LookupClass(p.res)
       IN IF ~p.res.ok
          THEN /\ out' = Reply(p.cb, Out("send", "check", c, g, cls,
                             <<SendErrorAck(p.res.err)>>, << >>, << >>))
               /\ pending' = pending (-) SetToBag({p})
          ELSE IF ~IsMember(p.res.status)
          THEN /\ out' = Reply(p.cb, Out("send", "check", c, g, cls,
                        <<Ack(FALSE, "You are not a member of this group",
                              "NOT_GROUP_MEMBER", NoMessage)>>, << >>, << >>))
               /\ pending' = pending (-) SetToBag({p})
          ELSE /\ out' = Out("send", "check", c, g, cls, << >>, << >>,
                             <<"sendMessage">>)
               /\ pending' = (pending (-) SetToBag({p})) (+) SetToBag({
                      WithCb(Pending("send", "store", c, g, p.content,
                                     GroupFindById(g, userId, dbFails),
                                     NoMessage), p.cb)})
    /\ UNCHANGED <<sockets, rooms, globalActiveUsers, members, messages>>

\* a message object that keeps the stored, encrypted content
MessageObjEncrypted(id, groupId, userId, content) ==
    [id |-> id, group |-> groupId, sender |-> userId, content |-> "encrypted"]

\* the object sendMessage returns: the saved document with the submitted
\* content put back in place
MessageObj(id, groupId, userId, content) ==
    [id |-> id, group |-> groupId, sender |-> userId, content |-> content]

\* a save that reports success and stores nothing
SaveNothing(msgs, msg) == msgs

\* message.save(): the document is in the collection when it returns
Save(msgs, msg) == Append(msgs, msg)

\* messageService.sendMessage after Group.findById: its own checks, then
\* message.save(); an error it throws reaches the handler's catch blocks
SendMessageStore(p, saveFails) ==
    /\ p \in BagToSet(pending)
    /\ p.op = "send" /\ p.phase = "store"
    /\ LET c == p.conn
           g == p.groupId
           userId == sockets[c].user.userId
           cls == LookupClass(p.res)
           thrown ==
               IF ~p.res.ok
               THEN InternalError("Message service error")
               ELSE IF p.res = NullDoc
               THEN NotFoundError("Group not found", "GROUP_NOT_FOUND")
               ELSE IF ~IsMember(p.res.status)
               THEN AuthorizationError(
                      "Only group members can send messages to the group",
                      "NOT_GROUP_MEMBER")
               ELSE IF Falsy(p.content) \/ Trim(p.content) = ""
               THEN ValidationError("Message content cannot be empty",
                                    "EMPTY_MESSAGE")
               ELSE NoError
           msg == MessageObj(Len(messages) + 1, g, userId, p.content)
       IN IF thrown # NoError
          THEN /\ out' = Reply(p.cb, Out("send", "store", c, g, cls,
                             <<SendErrorAck(thrown)>>, << >>, << >>))
               /\ pending' = pending (-) SetToBag({p})
               /\ UNCHANGED messages
          ELSE IF saveFails
          THEN /\ out' = Out("send", "store", c, g, cls, << >>, << >>,
                             <<"save">>)
               /\ pending' = (pending (-) SetToBag({p})) (+) SetToBag({
                      WithCb(Pending("send", "saved", c, g, p.content,
                                 Thrown(InternalError("Message service error")),
                                 NoMessage), p.cb)})
               /\ UNCHANGED messages
          ELSE /\ out' = Out("send", "store", c, g, cls, << >>, << >>,
                             <<"save">>)
               /\ messages' = Save(messages, msg)
               /\ pending' = (pending (-) SetToBag({p})) (+) SetToBag({
                      WithCb(Pending("send", "saved", c, g, p.content,
                                     Found("active"), msg), p.cb)})
    /\ UNCHANGED <<sockets, rooms, globalActiveUsers, members>>

\* handleSendMessage after messageService.sendMessage settled: broadcast to
\* the room, then the ack
SendMessageDone(p) ==
    /\ p \in BagToSet(pending)
    /\ p.op = "send" /\ p.phase = "saved"
    /\ pending' = pending (-) SetToBag({p})
    /\ LET c == p.conn
           g == p.groupId
       IN IF ~p.res.ok
          THEN out' = Reply(p.cb, Out("send", "done", c, g, "dberror",
                          <<SendErrorAck(p.res.err)>>, << >>, << >>))
          ELSE out' = Reply(p.cb, WithInput(
                          Out("send", "done", c, g, "active",
                              <<Ack(TRUE, "Message sent successfully",
                                    Undefined, p.msg)>>,
                              <<Emit("message:new", SocketTo(rooms, c, g),
                                     p.msg.sender, g, p.msg)>>,
                              << >>),
                          p.content, NoHandshake))
    /\ UNCHANGED <<sockets, rooms, globalActiveUsers, members, messages>>

\* the body handleTypingStart and handleTypingStop share: they differ in the
\* typing flag; an exception is logged and nothing is sent
HandleTyping(op, c, data, typing) ==
    /\ Dispatch(c)
    /\ IF ~HasData(data)
       THEN out' = Out(op, "done", c, Undefined, "skipped", << >>, << >>,
                       << >>)
       ELSE IF Falsy(data.groupId)
       THEN out' = Out(op, "done", c, data.groupId, "skipped", << >>, << >>,
                       << >>)
       ELSE out' = Out(op, "done", c, data.groupId, "skipped", << >>,
                       <<WithInfo(Emit("user:typing",
                                       SocketTo(rooms, c, data.groupId),
                                       sockets[c].user.userId, data.groupId,
                                       NoMessage),
                                  sockets[c].user.email, Undefined, Undefined,
                                  typing, FALSE)>>,
                       << >>)
    /\ UNCHANGED <<sockets, rooms, globalActiveUsers, members, messages,
                   pending>>

TypingStart(c, data) == HandleTyping("typing:start", c, data, TRUE)

TypingStop(c, data) == HandleTyping("typing:stop", c, data, FALSE)

\* handleMessageRead: no await, runs to completion in one step
MessageRead(c, data, cb) ==
    /\ Dispatch(c)
    /\ IF ~HasData(data)
       THEN out' = Reply(cb, Out("read", "done", c, Undefined, "skipped",
                        <<HandleError(PlainError("TypeError"),
                                      "Error processing read receipt")>>,
                        << >>, << >>))
       ELSE IF Falsy(data.messageId) \/ Falsy(data.groupId)
       THEN out' = Reply(cb, WithInput(
                        Out("read", "done", c, data.groupId, "skipped",
                            <<Ack(FALSE, "Message ID and group ID are required",
                                  "INVALID_INPUT", NoMessage)>>, << >>, << >>),
                        data.messageId, NoHandshake))
       ELSE out' = Reply(cb, WithInput(
                        Out("read", "done", c, data.groupId, "skipped",
                            <<Ack(TRUE, Undefined, Undefined, NoMessage)>>,
                            <<WithInfo(Emit("message:read",
                                            IoIn(rooms, data.groupId),
                                            sockets[c].user.userId, Undefined,
                                            NoMessage),
                                       sockets[c].user.email, Undefined,
                                       data.messageId, FALSE, TRUE)>>,
                            << >>),
                        data.messageId, NoHandshake))
    /\ UNCHANGED <<sockets, rooms, globalActiveUsers, members, messages,
                   pending>>

(* ------------------------- membership changes -------------------------- *)

\* Writes of the group document by the REST side of the application.  They
\* send nothing through the gateway, so 'out' keeps the last gateway output.

AddMember(g, u, status) ==
    /\ members' = [members EXCEPT ![g] = GroupAddMember(g, @, u, status)]
    /\ UNCHANGED <<sockets, rooms, globalActiveUsers, messages, pending, out>>

RemoveMember(g, u) ==
    /\ members' = [members EXCEPT ![g] = GroupRemoveMember(g, @, u)]
    /\ UNCHANGED <<sockets, rooms, globalActiveUsers, messages, pending, out>>

BanMember(g, u) ==
    /\ members' = [members EXCEPT ![g] = GroupBanMember(g, @, u)]
    /\ UNCHANGED <<sockets, rooms, globalActiveUsers, messages, pending, out>>

ApproveMember(g, u) ==
    /\ members' = [members EXCEPT ![g] = GroupApproveMember(g, @, u)]
    /\ UNCHANGED <<sockets, rooms, globalActiveUsers, messages, pending, out>>

(* ---------------------------- specifications --------------------------- *)

\* the group whose membership the REST side changes during a run
MutableGroups == {"g1"}

\* group ids clients send in presence events
JoinIds == {"g1", "gX", Undefined}

MembershipChange ==
    \/ \E g \in MutableGroups, u \in Users, s \in Statuses : AddMember(g, u, s)
    \/ \E g \in MutableGroups, u \in Users : RemoveMember(g, u)
    \/ \E g \in MutableGroups, u \in Users : BanMember(g, u)
    \/ \E g \in MutableGroups, u \in Users : ApproveMember(g, u)

\* Presence: clients with valid credentials join, leave and disconnect while
\* membership changes
Next ==
    \/ \E c \in Conns : \E hs \in GoodHandshakes(c) : Connect(c, hs)
    \/ \E c \in Conns : Disconnect(c)
    \/ \E c \in Conns, id \in JoinIds :
          JoinGroup(c, [groupId |-> id], TRUE, FALSE)
    \/ \E p \in BagToSet(pending) : JoinGroupResume(p)
    \/ \E c \in Conns, id \in JoinIds : LeaveGroup(c, [groupId |-> id], TRUE)
    \/ MembershipChange

Spec == Init /\ [][Next]_vars

\* Messaging: clients join a room and send while membership changes
SendData ==
    {[groupId |-> "g1", content |-> "hi"],
     [groupId |-> "gX", content |-> "hi"],
     [groupId |-> Undefined, content |-> "hi"],
     [groupId |-> "g1", content |-> ""],
     [groupId |-> "g1", content |-> Undefined]}

NextSend ==
    \/ \E c \in Conns : \E hs \in GoodHandshakes(c) : Connect(c, hs)
    \/ \E c \in Conns : Disconnect(c)
    \/ \E c \in Conns : JoinGroup(c, [groupId |-> "g1"], TRUE, FALSE)
    \/ \E p \in BagToSet(pending) : JoinGroupResume(p)
    \/ \E c \in Conns, data \in SendData : SendMessage(c, data, TRUE, FALSE)
    \/ \E p \in BagToSet(pending) : SendMessageCheck(p, FALSE)
    \/ \E p \in BagToSet(pending) : SendMessageStore(p, FALSE)
    \/ \E p \in BagToSet(pending) : SendMessageDone(p)
    \/ MembershipChange

SpecSend == Init /\ [][NextSend]_vars

\* Handshake: clients present any credential, then use the gateway
NextAuth ==
    \/ \E c \in Conns, hs \in Handshakes : Connect(c, hs)
    \/ \E c \in Conns : Disconnect(c)
    \/ \E c \in Conns : JoinGroup(c, [groupId |-> "g2"], TRUE, FALSE)
    \/ \E p \in BagToSet(pending) : JoinGroupResume(p)
    \/ \E c \in Conns : LeaveGroup(c, [groupId |-> "g2"], TRUE)
    \/ \E c \in Conns :
          SendMessage(c, [groupId |-> "g2", content |-> "hi"], TRUE, FALSE)
    \/ \E p \in BagToSet(pending) : SendMessageCheck(p, FALSE)
    \/ \E p \in BagToSet(pending) : SendMessageStore(p, FALSE)
    \/ \E p \in BagToSet(pending) : SendMessageDone(p)

SpecAuth == Init /\ [][NextAuth]_vars

\* Room events: members of g2 join and leave its room and send read
\* receipts
ReadData == [messageId : {"m1", Undefined}, groupId : {"g2", Undefined}]

TypingData == {NoData, [groupId |-> "g2"], [groupId |-> Undefined]}

RoomIds == {"g2", Undefined}

NextRoom ==
    \/ \E c \in Conns : \E hs \in GoodHandshakes(c) : Connect(c, hs)
    \/ \E c \in Conns : Disconnect(c)
    \/ \E c \in Conns, id \in RoomIds :
          JoinGroup(c, [groupId |-> id], TRUE, FALSE)
    \/ \E p \in BagToSet(pending) : JoinGroupResume(p)
    \/ \E c \in Conns, id \in RoomIds : LeaveGroup(c, [groupId |-> id], TRUE)
    \/ \E c \in Conns, data \in ReadData : MessageRead(c, data, TRUE)
    \/ \E c \in Conns, id \in RoomIds :
          GetActiveUsers(c, [groupId |-> id], TRUE, FALSE)
    \/ \E p \in BagToSet(pending) : GetActiveUsersResume(p)
    \/ \E c \in Conns, data \in TypingData : TypingStart(c, data)
    \/ \E c \in Conns, data \in TypingData : TypingStop(c, data)

SpecRoom == Init /\ [][NextRoom]_vars

\* Presence in several rooms: clients join and leave the rooms of both
\* groups and disconnect
NextPresence ==
    \/ \E c \in Conns : \E hs \in GoodHandshakes(c) : Connect(c, hs)
    \/ \E c \in Conns : Disconnect(c)
    \/ \E c \in Conns, g \in Groups :
          JoinGroup(c, [groupId |-> g], TRUE, FALSE)
    \/ \E p \in BagToSet(pending) : JoinGroupResume(p)
    \/ \E c \in Conns, g \in Groups : LeaveGroup(c, [groupId |-> g], TRUE)

SpecPresence == Init /\ [][NextPresence]_vars

\* Failures: the store fails or rejects the id, content is blank, and
\* membership changes while handlers wait; one device of each user
FailConns == {"c1", "c3"}

FailIds == {"g1", "bad"}

FailData ==
    {[groupId |-> "g1", content |-> "hi"],
     [groupId |-> "g1", content |-> " "],
     [groupId |-> "bad", content |-> "hi"]}

NextFail ==
    \/ \E c \in FailConns : \E hs \in GoodHandshakes(c) : Connect(c, hs)
    \/ \E c \in FailConns, id \in FailIds, dbFails \in BOOLEAN :
          JoinGroup(c, [groupId |-> id], TRUE, dbFails)
    \/ \E p \in BagToSet(pending) : JoinGroupResume(p)
    \/ \E c \in FailConns, id \in FailIds, dbFails \in BOOLEAN :
          GetActiveUsers(c, [groupId |-> id], TRUE, dbFails)
    \/ \E p \in BagToSet(pending) : GetActiveUsersResume(p)
    \/ \E c \in FailConns, data \in FailData, dbFails \in BOOLEAN :
          SendMessage(c, data, TRUE, dbFails)
    \/ \E p \in BagToSet(pending), dbFails \in BOOLEAN :
          SendMessageCheck(p, dbFails)
    \/ \E p \in BagToSet(pending), saveFails \in BOOLEAN :
          SendMessageStore(p, saveFails)
    \/ \E p \in BagToSet(pending) : SendMessageDone(p)
    \/ MembershipChange

SpecFail == Init /\ [][NextFail]_vars

\* Waiting handlers: one device of each user uses every request of the
\* gateway in group g2 while lookups and saves are outstanding
BusyData == [groupId |-> "g2"]

BusySendData == [groupId |-> "g2", content |-> "hi"]

BusyReadData == [messageId |-> "m1", groupId |-> "g2"]

NextBusy ==
    \/ \E c \in FailConns : \E hs \in GoodHandshakes(c) : Connect(c, hs)
    \/ \E c \in FailConns : Disconnect(c)
    \/ \E c \in FailConns, dbFails \in BOOLEAN :
          JoinGroup(c, BusyData, TRUE, dbFails)
    \/ \E p \in BagToSet(pending) : JoinGroupResume(p)
    \/ \E c \in FailConns : LeaveGroup(c, BusyData, TRUE)
    \/ \E c \in FailConns, dbFails \in BOOLEAN :
          GetActiveUsers(c, BusyData, TRUE, dbFails)
    \/ \E p \in BagToSet(pending) : GetActiveUsersResume(p)
    \/ \E c \in FailConns, dbFails \in BOOLEAN :
          SendMessage(c, BusySendData, TRUE, dbFails)
    \/ \E p \in BagToSet(pending), dbFails \in BOOLEAN :
          SendMessageCheck(p, dbFails)
    \/ \E p \in BagToSet(pending), saveFails \in BOOLEAN :
          SendMessageStore(p, saveFails)
    \/ \E p \in BagToSet(pending) : SendMessageDone(p)
    \/ \E c \in FailConns : MessageRead(c, BusyReadData, TRUE)

SpecBusy == Init /\ [][NextBusy]_vars

\* continuations of the group lookups only: a save need not return
ResumeLookupsOnly(p) ==
    \/ JoinGroupResume(p)
    \/ GetActiveUsersResume(p)
    \/ \E dbFails \in BOOLEAN : SendMessageCheck(p, dbFails)

\* the continuation of a waiting handler, run when the promise it awaits
\* settles
Resume(p) ==
    \/ JoinGroupResume(p)
    \/ GetActiveUsersResume(p)
    \/ \E dbFails \in BOOLEAN : SendMessageCheck(p, dbFails)
    \/ \E saveFails \in BOOLEAN : SendMessageStore(p, saveFails)
    \/ SendMessageDone(p)

\* the awaits of the handlers: handler and the call it waits for
FrameKeys ==
    {<<"join", "lookup">>, <<"active", "lookup">>, <<"send", "lookup">>,
     <<"send", "store">>, <<"send", "saved">>}

\* the waiting handlers of connection c at one await, whose call succeeded
\* or failed
Frames(c, k, ok) ==
    {p \in BagToSet(pending) :
        p.conn = c /\ p.op = k[1] /\ p.phase = k[2] /\ p.res.ok = ok}

\* a collaborator call of connection c returns (ok) or fails, and the event
\* loop runs the continuation
Returns(c, k, ok) == \E p \in Frames(c, k, ok) : Resume(p)

\* every collaborator call made for connection c settles eventually
Settles(c) == \A k \in FrameKeys, ok \in BOOLEAN : WF_vars(Returns(c, k, ok))

\* every collaborator call settles
SpecLive == SpecBusy /\ \A c \in FailConns : Settles(c)

\* the calls made for c3 settle, those made for c1 may stay open for ever
SpecStuck == SpecBusy /\ Settles("c3")

\* Every event: one device of each user uses all the events of the gateway
\* in group g2
NextAll ==
    \/ \E c \in FailConns : \E hs \in GoodHandshakes(c) : Connect(c, hs)
    \/ \E c \in FailConns : Disconnect(c)
    \/ \E c \in FailConns : JoinGroup(c, BusyData, TRUE, FALSE)
    \/ \E p \in BagToSet(pending) : JoinGroupResume(p)
    \/ \E c \in FailConns : LeaveGroup(c, BusyData, TRUE)
    \/ \E c \in FailConns : GetActiveUsers(c, BusyData, TRUE, FALSE)
    \/ \E p \in BagToSet(pending) : GetActiveUsersResume(p)
    \/ \E c \in FailConns : SendMessage(c, BusySendData, TRUE, FALSE)
    \/ \E p \in BagToSet(pending) : SendMessageCheck(p, FALSE)
    \/ \E p \in BagToSet(pending) : SendMessageStore(p, FALSE)
    \/ \E p \in BagToSet(pending) : SendMessageDone(p)
    \/ \E c \in FailConns : MessageRead(c, BusyReadData, TRUE)
    \/ \E c \in FailConns : TypingStart(c, BusyData)
    \/ \E c \in FailConns : TypingStop(c, BusyData)

SpecAll == Init /\ [][NextAll]_vars

\* Group scope: one device of the owner and one of a user whose membership
\* of g1 changes use the events of g1
ScopeData == [groupId |-> "g1"]

ScopeSendData == [groupId |-> "g1", content |-> "hi"]

ScopeReadData == [messageId |-> "m1", groupId |-> "g1"]

NextScope ==
    \/ \E c \in FailConns : \E hs \in GoodHandshakes(c) : Connect(c, hs)
    \/ \E c \in FailConns : Disconnect(c)
    \/ \E c \in FailConns : JoinGroup(c, ScopeData, TRUE, FALSE)
    \/ \E p \in BagToSet(pending) : JoinGroupResume(p)
    \/ \E c \in FailConns : LeaveGroup(c, ScopeData, TRUE)
    \/ \E c \in FailConns : SendMessage(c, ScopeSendData, TRUE, FALSE)
    \/ \E p \in BagToSet(pending) : SendMessageCheck(p, FALSE)
    \/ \E p \in BagToSet(pending) : SendMessageStore(p, FALSE)
    \/ \E p \in BagToSet(pending) : SendMessageDone(p)
    \/ \E c \in FailConns : MessageRead(c, ScopeReadData, TRUE)
    \/ \E c \in FailConns : TypingStart(c, ScopeData)
    \/ \E c \in FailConns : TypingStop(c, ScopeData)
    \/ MembershipChange

SpecScope == Init /\ [][NextScope]_vars

\* Order: each client sends the messages of OrderContents to g2 one after
\* the other, without waiting for the acks
OrderContents == <<"first", "second">>

\* the client of c has sent this content already
Sent(c, content) ==
    \/ \E p \in BagToSet(pending) :
          p.op = "send" /\ p.conn = c /\ p.content = content
    \/ \E i \in 1..Len(messages) :
          /\ messages[i].content = content
          /\ messages[i].sender = sockets[c].user.userId

SendInOrder(c) ==
    \E i \in 1..Len(OrderContents) :
       /\ \A j \in 1..(i - 1) : Sent(c, OrderContents[j])
       /\ ~Sent(c, OrderContents[i])
       /\ SendMessageUpTo(c, [groupId |-> "g2", content |-> OrderContents[i]],
                          TRUE, FALSE, MaxOrder)

NextOrder ==
    \/ \E c \in FailConns : \E hs \in GoodHandshakes(c) : Connect(c, hs)
    \/ \E c \in FailConns : JoinGroup(c, BusyData, TRUE, FALSE)
    \/ \E p \in BagToSet(pending) : JoinGroupResume(p)
    \/ \E c \in FailConns : SendInOrder(c)
    \/ \E p \in BagToSet(pending) : SendMessageCheck(p, FALSE)
    \/ \E p \in BagToSet(pending) : SendMessageStore(p, FALSE)
    \/ \E p \in BagToSet(pending) : SendMessageDone(p)

SpecOrder == Init /\ [][NextOrder]_vars

\* Malformed events: clients send events without an ack callback or without
\* a payload
CrashData == {NoData, [groupId |-> "g2"]}

CrashSendData == {NoData, [groupId |-> "g2", content |-> "hi"]}

CrashReadData == {NoData, [messageId |-> "m1", groupId |-> "g2"]}

NextCrash ==
    \/ \E c \in FailConns : \E hs \in GoodHandshakes(c) : Connect(c, hs)
    \/ \E c \in FailConns : Disconnect(c)
    \/ \E c \in FailConns, data \in CrashData, cb \in BOOLEAN :
          JoinGroup(c, data, cb, FALSE)
    \/ \E p \in BagToSet(pending) : JoinGroupResume(p)
    \/ \E c \in FailConns, data \in CrashData, cb \in BOOLEAN :
          LeaveGroup(c, data, cb)
    \/ \E c \in FailConns, data \in CrashData, cb \in BOOLEAN :
          GetActiveUsers(c, data, cb, FALSE)
    \/ \E p \in BagToSet(pending) : GetActiveUsersResume(p)
    \/ \E c \in FailConns, data \in CrashSendData, cb \in BOOLEAN :
          SendMessage(c, data, cb, FALSE)
    \/ \E p \in BagToSet(pending) : SendMessageCheck(p, FALSE)
    \/ \E p \in BagToSet(pending) : SendMessageStore(p, FALSE)
    \/ \E p \in BagToSet(pending) : SendMessageDone(p)
    \/ \E c \in FailConns, data \in CrashReadData, cb \in BOOLEAN :
          MessageRead(c, data, cb)

SpecCrash == Init /\ [][NextCrash]_vars

(* ------------------------------- claims -------------------------------- *)

\* the step just taken is segment 'step' of handler 'op' (membership changes
\* leave 'out' as it was, so they are told apart by the write they make)
GatewayStep(op, step) ==
    out'.op = op /\ out'.step = step /\ members' = members

Rejecting == {"pending", "banned", "none", "notfound"}

\* C1: a join-group whose lookup finds the caller an active member of the
\* group acks the caller with success exactly once, delivers exactly one
\* presence-active (user:active) for that user and group to every other
\* connection that was already in the room, and delivers none to any
\* connection outside the room or to the joining connection itself.
C1_JoinNotifiesRoom ==
    [][(GatewayStep("join", "resume") /\ out'.lookup = "active") =>
          /\ Len(out'.acks) = 1
          /\ out'.acks[1].success = TRUE
          /\ \A i \in 1..Len(out'.emits) :
                /\ out'.emits[i].event = "user:active"
                /\ out'.emits[i].userId = sockets[out'.conn].user.userId
                /\ out'.emits[i].groupId = out'.groupId
          /\ \A c \in Conns :
                Delivered(out', c, "user:active") =
                    IF c \in rooms[out'.groupId] \ {out'.conn} THEN 1 ELSE 0
      ]_vars

C1_Witness ==
    /\ out.op = "join" /\ out.step = "resume" /\ out.lookup = "active"
    /\ Len(out.emits) = 1
    /\ Cardinality(out.emits[1].to) >= 1
    /\ out.conn \in rooms[out.groupId]
    /\ \E d \in Conns : /\ sockets[d].state = "connected"
                        /\ d \notin rooms[out.groupId]

\* C2: a join-group whose lookup finds the caller pending, banned or not
\* listed, or finds no such group, leaves every room and the presence map
\* as they were, emits nothing, and acks the caller exactly once, with a
\* failure.
C2_RejectedJoinChangesNothing ==
    [][(GatewayStep("join", "resume") /\ out'.lookup \in Rejecting) =>
          /\ rooms' = rooms
          /\ globalActiveUsers' = globalActiveUsers
          /\ out'.emits = << >>
          /\ Len(out'.acks) = 1
          /\ out'.acks[1].success = FALSE
      ]_vars

C2_Witness ==
    /\ out.op = "join" /\ out.step = "resume" /\ out.lookup = "banned"
    /\ Len(out.acks) = 1 /\ out.acks[1].success = FALSE
    /\ \E d \in Conns : d # out.conn /\ d \in rooms[out.groupId]

\* C3: the failure ack of a rejected join-group carries GROUP_NOT_FOUND when
\* the group does not exist and NOT_GROUP_MEMBER when the caller is pending,
\* banned or not listed, and its error field is never empty.
C3_RejectedJoinErrorCode ==
    (out.op = "join" /\ out.step = "resume" /\ out.lookup \in Rejecting) =>
        /\ Len(out.acks) = 1
        /\ out.acks[1].error # Undefined
        /\ out.acks[1].error = IF out.lookup = "notfound"
                               THEN "GROUP_NOT_FOUND" ELSE "NOT_GROUP_MEMBER"

\* the rooms connection c is joined to
JoinedRooms(rm, c) == {g \in DOMAIN rm : c \in rm[g]}

\* C4: the disconnect of a connection joined to N rooms emits exactly N
\* presence-inactive (user:inactive) events for its user, one per room it
\* was joined to, each delivered exactly to the connections remaining in
\* that room; and when no other connection of the user is still connected,
\* the presence map holds no entry for the user afterwards.
C4_DisconnectSweepsJoinedRooms ==
    [][GatewayStep("disconnect", "done") =>
          LET c == out'.conn
              u == sockets[c].user.userId
              joined == JoinedRooms(rooms, c)
          IN /\ Len(out'.emits) = Cardinality(joined)
             /\ \A g \in joined :
                   \E i \in 1..Len(out'.emits) :
                      /\ out'.emits[i].event = "user:inactive"
                      /\ out'.emits[i].userId = u
                      /\ out'.emits[i].groupId = g
                      /\ out'.emits[i].to = rooms'[g]
             /\ (~\E d \in Conns : /\ d # c
                                   /\ sockets'[d].state = "connected"
                                   /\ sockets'[d].user.userId = u)
                   => ~MapHas(globalActiveUsers', u)
      ]_vars

\* C5: group G is in the presence set of user U exactly when a connected
\* connection of U is in room group:G.
C5_PresenceMatchesRooms ==
    \A u \in Users, g \in GroupIds :
        (MapHas(globalActiveUsers, u) /\ g \in globalActiveUsers[u])
            <=> \E c \in Conns : /\ sockets[c].state = "connected"
                                 /\ sockets[c].user.userId = u
                                 /\ c \in rooms[g]

\* C9: whenever a connection is added to room group:G, or G is added to its
\* user's presence set, the persisted membership status of that user in G
\* is active at that moment.
C9_JoinOnlyWhileActive ==
    [][\A g \in Groups :
          /\ \A c \in rooms'[g] \ rooms[g] :
                members[g][sockets[c].user.userId] = "active"
          /\ \A u \in Users :
                (/\ MapHas(globalActiveUsers', u)
                 /\ g \in globalActiveUsers'[u]
                 /\ ~(MapHas(globalActiveUsers, u) /\ g \in globalActiveUsers[u]))
                    => members[g][u] = "active"
      ]_vars

\* C6: a successful send-message is delivered as message-new (message:new)
\* exactly once to every connection in the room other than the sending
\* connection and never to the sending connection, which gets the message
\* in its single ack.
C6_SendReachesOthersOnce ==
    [][(/\ GatewayStep("send", "done")
        /\ Len(out'.acks) > 0 /\ out'.acks[1].success) =>
          /\ Len(out'.acks) = 1
          /\ out'.acks[1].data # NoMessage
          /\ \A i \in 1..Len(out'.emits) :
                /\ out'.emits[i].event = "message:new"
                /\ out'.emits[i].msg = out'.acks[1].data
          /\ \A c \in Conns :
                Delivered(out', c, "message:new") =
                    IF c \in rooms[out'.groupId] /\ c # out'.conn
                    THEN 1 ELSE 0
      ]_vars

C6_Witness ==
    /\ out.op = "send" /\ out.step = "done"
    /\ Len(out.acks) = 1 /\ out.acks[1].success
    /\ out.conn \in rooms[out.groupId]
    /\ Cardinality(rooms[out.groupId]) >= 2
    /\ Len(out.emits) = 1
    /\ out.emits[1].to = rooms[out.groupId] \ {out.conn}

\* the client left out the field or sent the empty string
Missing(v) == v \in {Undefined, ""}

C8_SendChecksMembership ==
    [][(/\ out'.op = "send" /\ out'.step \in {"check", "store"}
        /\ members' = members
        /\ out'.lookup \in Rejecting) =>
          /\ Len(out'.acks) = 1
          /\ out'.acks[1].success = FALSE
          /\ out'.acks[1].error = IF out'.lookup = "notfound"
                                  THEN "GROUP_NOT_FOUND"
                                  ELSE "NOT_GROUP_MEMBER"
          /\ out'.emits = << >>
          /\ messages' = messages
      ]_vars

BadTokens == {"tok_expired", "tok_malformed", "tok_badsig"}

\* the handshake carries no credential
NoCredential(hs) ==
    /\ Missing(hs.auth)
    /\ (hs.authorization = NoHeader \/ hs.authorization[2] = "")

\* the handshake's credential is one that fails verification
BadCredential(hs) ==
    \/ hs.auth \in BadTokens
    \/ /\ Missing(hs.auth)
       /\ hs.authorization # NoHeader
       /\ hs.authorization[2] \in BadTokens

\* C10: a connection attempt without a credential is rejected with
\* NO_AUTH_TOKEN, one whose credential fails verification with
\* INVALID_TOKEN; a rejected connection has no identity, gets no
\* auth-success (connect:success), is never established, is in no room, and
\* no handler ever runs or waits for it.
C10_RejectedConnectionsDoNothing ==
    [][/\ GatewayStep("connect", "done") =>
             LET c == out'.conn
                 hs == out'.input.hs
             IN /\ NoCredential(hs) =>
                      /\ sockets'[c].state = "rejected"
                      /\ out'.lookup = "NO_AUTH_TOKEN"
                /\ BadCredential(hs) =>
                      /\ sockets'[c].state = "rejected"
                      /\ out'.lookup = "INVALID_TOKEN"
                /\ sockets'[c].state = "rejected" =>
                      /\ sockets'[c].user = NoUser
                      /\ out'.emits = << >>
       /\ \A c \in Conns :
             /\ sockets[c].state = "rejected" => sockets'[c] = sockets[c]
             /\ sockets'[c].state = "rejected" =>
                   /\ \A g \in GroupIds : c \notin rooms'[g]
                   /\ \A p \in BagToSet(pending') : p.conn # c
                   /\ out'.op # "connect" => out'.conn # c
                   /\ \A i \in 1..Len(out'.emits) : c \notin out'.emits[i].to
      ]_vars

C10_Witness ==
    /\ \E c \in Conns : /\ sockets[c].state = "rejected"
                        /\ out.op = "connect" /\ out.conn = c
                        /\ out.lookup = "INVALID_TOKEN"
    /\ \E c \in Conns : /\ sockets[c].state = "rejected"
                        /\ out.conn # c
    /\ \E c \in Conns : sockets[c].state = "connected" /\ c \in rooms["g2"]

\* the user a credential that verifies was issued to
IssuedTo(tok) == IF tok = "tok_u1" THEN "u1" ELSE "u2"

\* the credential that counts: auth.token when given, else the header's
Credential(hs) ==
    IF ~Missing(hs.auth) THEN hs.auth
    ELSE IF hs.authorization = NoHeader THEN Undefined
    ELSE hs.authorization[2]

\* C11: a connection whose credential verifies gets the credential's
\* identity {userId, email} attached and exactly one auth-success
\* (connect:success) carrying that user id, email, the connection id and a
\* timestamp, sent to that connection alone; the event is sent in the step
\* that establishes the connection, so never again later, and every ack or
\* broadcast is caused by a connection that was established before.
C11_AuthSuccessOnceAndFirst ==
    [][/\ GatewayStep("connect", "done") =>
             LET c == out'.conn
                 tok == Credential(out'.input.hs)
             IN /\ sockets[c].state = "idle"
                /\ tok \in {"tok_u1", "tok_u2"} =>
                      /\ sockets'[c].state = "connected"
                      /\ sockets'[c].user =
                            [userId |-> IssuedTo(tok),
                             email |-> Email(IssuedTo(tok))]
                      /\ out'.acks = << >>
                      /\ Len(out'.emits) = 1
                      /\ out'.emits[1].event = "connect:success"
                      /\ out'.emits[1].to = {c}
                      /\ out'.emits[1].userId = IssuedTo(tok)
                      /\ out'.emits[1].info.email = Email(IssuedTo(tok))
                      /\ out'.emits[1].info.socketId = c
                      /\ out'.emits[1].info.timestamp
       /\ (out' # out /\ out'.op # "connect") =>
             /\ sockets[out'.conn].state \in {"connected", "closed"}
             /\ \A i \in 1..Len(out'.emits) :
                   out'.emits[i].event # "connect:success"
       /\ \A c \in Conns :
             sockets[c].state = "connected" =>
                /\ sockets'[c].state \in {"connected", "closed"}
                /\ sockets'[c].user = sockets[c].user
      ]_vars

C11_Witness ==
    /\ out.op = "send" /\ out.step = "done"
    /\ Len(out.acks) = 1 /\ out.acks[1].success
    /\ sockets[out.conn].user.userId = "u2"
    /\ \E c \in Conns : /\ c # out.conn
                        /\ sockets[c].state = "connected"
                        /\ sockets[c].user.userId = "u1"
                        /\ c \in out.emits[1].to

\* C12: a read-receipt (message:read) carrying both messageId and groupId
\* delivers exactly one read-notification, with the message id and the
\* reader's userId and email, to every connection in room group:G, the
\* reader's own connection included when it is in the room, to no
\* connection outside it, and acks the reader with success once.
C12_ReadReceiptReachesWholeRoom ==
    [][(/\ GatewayStep("read", "done")
        /\ ~Missing(out'.groupId) /\ ~Missing(out'.input.content)) =>
          /\ Len(out'.acks) = 1
          /\ out'.acks[1].success = TRUE
          /\ \A i \in 1..Len(out'.emits) :
                /\ out'.emits[i].event = "message:read"
                /\ out'.emits[i].userId = sockets[out'.conn].user.userId
                /\ out'.emits[i].info.email = sockets[out'.conn].user.email
                /\ out'.emits[i].info.messageId = out'.input.content
          /\ \A c \in Conns :
                Delivered(out', c, "message:read") =
                    IF c \in rooms[out'.groupId] THEN 1 ELSE 0
          /\ rooms' = rooms
      ]_vars

C12_Witness ==
    /\ out.op = "read" /\ out.step = "done"
    /\ Len(out.acks) = 1 /\ out.acks[1].success
    /\ out.conn \in rooms[out.groupId]
    /\ Cardinality(rooms[out.groupId]) >= 2
    /\ Delivered(out, out.conn, "message:read") = 1

\* the groups in the presence set of user u
PresenceOf(gau, u) == IF u \in DOMAIN gau THEN gau[u] ELSE {}

\* C13: a leave-group for a room the connection is not in (a second leave
\* in a row, or a leave of a room never joined) is acked with success and
\* delivers no presence-inactive (user:inactive) to any connection.
C13_LeaveIsIdempotent ==
    [][(/\ GatewayStep("leave", "done")
        /\ ~Missing(out'.groupId)
        /\ out'.conn \notin rooms[out'.groupId]) =>
          /\ Len(out'.acks) = 1
          /\ out'.acks[1].success = TRUE
          /\ \A c \in Conns : Delivered(out', c, "user:inactive") = 0
      ]_vars

\* C14: a leave-group for a room the connection is in removes it from the
\* room, leaves the group out of its user's presence set, delivers exactly
\* one presence-inactive (user:inactive) for that user and group to each
\* connection remaining in the room and none to the leaving connection or
\* to connections outside the room, and acks success once.
C14_LeaveNotifiesRemaining ==
    [][(/\ GatewayStep("leave", "done")
        /\ ~Missing(out'.groupId)
        /\ out'.conn \in rooms[out'.groupId]) =>
          LET c == out'.conn
              g == out'.groupId
          IN /\ rooms' = [rooms EXCEPT ![g] = @ \ {c}]
             /\ g \notin PresenceOf(globalActiveUsers',
                                    sockets[c].user.userId)
             /\ Len(out'.acks) = 1
             /\ out'.acks[1].success = TRUE
             /\ \A i \in 1..Len(out'.emits) :
                   /\ out'.emits[i].event = "user:inactive"
                   /\ out'.emits[i].userId = sockets[c].user.userId
                   /\ out'.emits[i].groupId = g
             /\ \A d \in Conns :
                   Delivered(out', d, "user:inactive") =
                       IF d \in rooms[g] \ {c} THEN 1 ELSE 0
      ]_vars

C14_Witness ==
    /\ out.op = "leave" /\ out.step = "done"
    /\ Len(out.acks) = 1 /\ out.acks[1].success
    /\ Len(out.emits) = 1
    /\ Cardinality(out.emits[1].to) >= 1
    /\ out.emits[1].to = rooms[out.groupId]
    /\ out.conn \notin rooms[out.groupId]
    /\ sockets[out.conn].user.userId \notin DOMAIN globalActiveUsers

\* C15: get-active-users (group:active_users) by an active member of G is
\* acked with success and a list holding exactly the identities that have
\* a connection in room group:G, one entry per identity, each with status
\* "online".
C15_ActiveUsersAreDistinctIdentities ==
    [][(GatewayStep("active", "resume") /\ out'.lookup = "active") =>
          LET users == out'.acks[1].users
              inRoom == {sockets[c].user.userId : c \in rooms[out'.groupId]}
          IN /\ Len(out'.acks) = 1
             /\ out'.acks[1].success = TRUE
             /\ {users[i].userId : i \in 1..Len(users)} = inRoom
             /\ Len(users) = Cardinality(inRoom)
             /\ \A i \in 1..Len(users) :
                   /\ users[i].status = "online"
                   /\ users[i].email = Email(users[i].userId)
      ]_vars

ErrorCodes ==
    {"INVALID_INPUT", "GROUP_NOT_FOUND", "NOT_GROUP_MEMBER", "INTERNAL_ERROR"}

\* C16: every failure ack of join-group, leave-group, get-active-users,
\* send-message and read-receipt carries an error code from
\* {INVALID_INPUT, GROUP_NOT_FOUND, NOT_GROUP_MEMBER, INTERNAL_ERROR},
\* whatever the membership lookup and the message store answered.
C16_ErrorCodesAreClosed ==
    \A i \in 1..Len(out.acks) :
        ~out.acks[i].success => out.acks[i].error \in ErrorCodes

GenericMessages ==
    {"Failed to join group room", "Failed to get active users",
     "Error sending message"}

\* the step just taken resumed a handler with an exception raised by the
\* membership lookup or by the message store
CollaboratorRaised ==
    /\ members' = members
    /\ out' # out
    /\ \/ /\ out'.op \in {"join", "active"} /\ out'.step = "resume"
          /\ out'.lookup \in {"dberror", "invalid", "notfound"}
       \/ /\ out'.op = "send" /\ out'.step = "check"
          /\ out'.lookup \in {"dberror", "invalid", "notfound"}
       \/ /\ out'.op = "send" /\ out'.step = "store"
          /\ out'.calls # <<"save">>
       \/ /\ out'.op = "send" /\ out'.step = "done"
          /\ out'.lookup = "dberror"

\* C17: when the membership lookup or the message store raises an
\* exception during a join-group, get-active-users or send-message that
\* supplied an ack, the caller gets exactly one failure ack, which for a
\* failure of the store itself is INTERNAL_ERROR with a generic message;
\* nothing is broadcast and rooms, presence and stored messages stay as
\* they were.
C17_CollaboratorFailuresAreAcked ==
    [][CollaboratorRaised =>
          /\ ~out'.escaped
          /\ Len(out'.acks) = 1
          /\ out'.acks[1].success = FALSE
          /\ out'.lookup = "dberror" =>
                /\ out'.acks[1].error = "INTERNAL_ERROR"
                /\ out'.acks[1].message \in GenericMessages
          /\ out'.emits = << >>
          /\ rooms' = rooms
          /\ globalActiveUsers' = globalActiveUsers
          /\ messages' = messages
      ]_vars

C17_Witness ==
    /\ out.op = "send" /\ out.step = "done" /\ out.lookup = "dberror"
    /\ Len(out.acks) = 1 /\ out.acks[1].error = "INTERNAL_ERROR"
    /\ rooms["g1"] # {}
    /\ DOMAIN globalActiveUsers # {}

\* C18: no join-group, leave-group, get-active-users, send-message or
\* read-receipt, sent with or without an ack callback and with or without
\* a payload, lets an exception or a rejected promise escape its handler.
C18_NothingEscapesAHandler == ~out.escaped

TypingOps == {"typing:start", "typing:stop"}

\* C19: typing-start and typing-stop send no ack and report no error, look
\* nothing up and change no state; with a groupId they deliver exactly one
\* typing-state event (user:typing: typing true for start, false for stop,
\* the sender's userId and email, the groupId) to every connection in room
\* group:G other than the sender and to no one else; without a groupId
\* they emit nothing.
C19_TypingReachesOthers ==
    [][(out' # out /\ out'.op \in TypingOps) =>
          LET c == out'.conn
              g == out'.groupId
          IN /\ out'.acks = << >>
             /\ ~out'.escaped
             /\ out'.calls = << >>
             /\ UNCHANGED <<sockets, rooms, globalActiveUsers, members,
                            messages, pending>>
             /\ Missing(g) => out'.emits = << >>
             /\ ~Missing(g) =>
                   /\ \A i \in 1..Len(out'.emits) :
                         /\ out'.emits[i].event = "user:typing"
                         /\ out'.emits[i].userId = sockets[c].user.userId
                         /\ out'.emits[i].info.email = sockets[c].user.email
                         /\ out'.emits[i].groupId = g
                         /\ out'.emits[i].info.typing =
                               (out'.op = "typing:start")
                   /\ \A d \in Conns :
                         Delivered(out', d, "user:typing") =
                             IF d \in rooms[g] \ {c} THEN 1 ELSE 0
      ]_vars

C19_Witness ==
    /\ out.op = "typing:stop"
    /\ Len(out.emits) = 1
    /\ out.conn \in rooms[out.groupId]
    /\ Cardinality(out.emits[1].to) = 2
    /\ ~out.emits[1].info.typing

\* C20: for a successful send-message the object broadcast as message-new
\* (message:new) and the object in the sender's ack are the same message:
\* its content is the submitted content, its sender the sending
\* connection's userId, its group the target groupId, and it is the
\* message that was stored.
C20_BroadcastAndAckCarryTheMessage ==
    [][(/\ GatewayStep("send", "done")
        /\ Len(out'.acks) > 0 /\ out'.acks[1].success) =>
          LET m == out'.acks[1].data
          IN /\ Len(out'.emits) = 1
             /\ out'.emits[1].msg = m
             /\ m.content = out'.input.content
             /\ ~Missing(m.content)
             /\ m.sender = sockets[out'.conn].user.userId
             /\ m.group = out'.groupId
             /\ \E i \in 1..Len(messages) : messages[i] = m
      ]_vars

C20_Witness ==
    /\ out.op = "send" /\ out.step = "done"
    /\ Len(out.acks) = 1 /\ out.acks[1].success
    /\ out.acks[1].data.content = "hi"
    /\ out.acks[1].data.sender = "u2"
    /\ Len(out.emits) = 1
    /\ out.emits[1].to # {}
    /\ out.emits[1].msg.content = "hi"

(* ------------------------------ claim C21 ------------------------------ *)

\* the steps that end a handler at its input validation
InvalidInputStep ==
    \/ /\ out'.op \in {"join", "active"}
       /\ out'.step = "start"
       /\ Missing(out'.groupId)
    \/ /\ out'.op = "leave"
       /\ out'.step = "done"
       /\ Missing(out'.groupId)
    \/ /\ out'.op = "read"
       /\ out'.step = "done"
       /\ Missing(out'.groupId) \/ Missing(out'.input.content)

C22_ActiveUsersAuthorisedLikeJoin ==
    [][GatewayStep("active", "start") \/ GatewayStep("active", "resume") =>
          /\ rooms' = rooms
          /\ globalActiveUsers' = globalActiveUsers
          /\ out'.emits = << >>
          /\ out'.step = "resume" /\ out'.lookup \in Rejecting =>
                /\ Len(out'.acks) = 1
                /\ ~out'.acks[1].success
                /\ out'.acks[1].users = << >>
                /\ out'.acks[1].error =
                      IF out'.lookup = "notfound" THEN "GROUP_NOT_FOUND"
                      ELSE "NOT_GROUP_MEMBER"]_vars

(* ------------------------------ claim C23 ------------------------------ *)

\* C23: after any sequence of group saves (create, addMember, banMember,
\* approveMember, removeMember) the owner of every group is in its members
\* with status active; a ban or a removal aimed at the owner does not leave
\* the owner non-active.
C23_OwnerStaysActive ==
    /\ \A g \in Groups : members[g][Owner(g)] = "active"
    /\ \A g \in Groups :
          /\ GroupBanMember(g, members[g], Owner(g))[Owner(g)] = "active"
          /\ GroupRemoveMember(g, members[g], Owner(g))[Owner(g)] = "active"

\* saves have added and then banned another member of g1
C23_Witness ==
    /\ members["g1"]["u2"] = "banned"
    /\ members["g1"][Owner("g1")] = "active"

(* ------------------------------ claim C24 ------------------------------ *)

\* C24: after any sequence of joins, leaves and disconnects the presence map
\* holds no user mapped to an empty set of groups.
C24_NoEmptyPresenceSet ==
    \A u \in DOMAIN globalActiveUsers : globalActiveUsers[u] # {}

\* a leave has just removed the last group of a user, seen by a connection
\* that is still in the room, and the user's key is gone
C24_Witness ==
    /\ out.op = "leave"
    /\ Len(out.acks) = 1
    /\ out.acks[1].success
    /\ Len(out.emits) = 1
    /\ out.emits[1].to # {}
    /\ ~MapHas(globalActiveUsers, sockets[out.conn].user.userId)

(* ------------------------------ claim C25 ------------------------------ *)

\* a step in which the gateway starts the handler of an event
HandlerStarts ==
    \/ \E op \in {"join", "active", "send"} : GatewayStep(op, "start")
    \/ \E op \in {"leave", "read"} \cup TypingOps : GatewayStep(op, "done")

C26_DisconnectClearsWholePresence ==
    [][GatewayStep("disconnect", "done") =>
          LET c == out'.conn
              u == sockets[c].user.userId
              groups == PresenceOf(globalActiveUsers, u)
          IN /\ Len(out'.emits) = Cardinality(groups)
             /\ \A g \in groups :
                   \E i \in 1..Len(out'.emits) :
                      /\ out'.emits[i].event = "user:inactive"
                      /\ out'.emits[i].userId = u
                      /\ out'.emits[i].groupId = g
                      /\ out'.emits[i].to = rooms'[g] \ {c}
             /\ ~MapHas(globalActiveUsers', u)]_vars

\* a connection has disconnected and user:inactive went to a connection of
\* the same user that is still connected and in the room
C26_Witness ==
    /\ out.op = "disconnect"
    /\ Len(out.emits) = 2
    /\ \E d \in out.emits[1].to :
          /\ d # out.conn
          /\ sockets[d].state = "connected"
          /\ sockets[d].user.userId = out.emits[1].userId
          /\ d \in rooms[out.emits[1].groupId]
    /\ ~MapHas(globalActiveUsers, out.emits[1].userId)

(* ------------------------------ claim C27 ------------------------------ *)

\* some join or send of connection c is waiting for a collaborator
Waiting(c) ==
    \E p \in BagToSet(pending) : p.conn = c /\ p.op \in {"join", "send"}

\* the step that ends the await k of a handler of connection c has happened
Served(c, k, ok) ==
    /\ out.conn = c
    /\ out.op = k[1]
    /\ out.step = (CASE k[2] = "lookup" /\ k[1] = "send" -> "check"
                     [] k[2] = "lookup" /\ k[1] # "send" -> "resume"
                     [] k[2] = "store" -> "store"
                     [] k[2] = "saved" -> "done")
    /\ (out.lookup \in {"dberror", "invalid", "notfound"}) = ~ok

\* every event of connection d can be taken up now, and every waiting
\* handler of d can continue now
CanProceed(d) ==
    /\ ENABLED LeaveGroup(d, BusyData, TRUE)
    /\ ENABLED MessageRead(d, BusyReadData, TRUE)
    /\ PendingCount < MaxPending =>
          /\ ENABLED JoinGroup(d, BusyData, TRUE, FALSE)
          /\ ENABLED GetActiveUsers(d, BusyData, TRUE, FALSE)
          /\ Len(messages) + PendingOps("send") < MaxMessages =>
                ENABLED SendMessage(d, BusySendData, TRUE, FALSE)
    /\ \A p \in BagToSet(pending) : p.conn = d => ENABLED Resume(p)

\* C27: no operation blocks the gateway: while a join or a send of one
\* connection waits for its collaborator, the events of every other
\* connection are still taken up and continued; and when the calls made for
\* c1 never return, every handler of c3 still runs to its end.
C27_NoOperationBlocksTheGateway ==
    /\ [](\A c \in FailConns, d \in FailConns :
             c # d /\ Waiting(c) /\ sockets[d].state = "connected"
                => CanProceed(d))
    /\ \A k \in FrameKeys, ok \in BOOLEAN :
          (Frames("c3", k, ok) # {}) ~> Served("c3", k, ok)

\* a request of c3 has just been acked with success while a join or a send
\* of c1 is still waiting
C27_Witness ==
    /\ Waiting("c1")
    /\ out.conn = "c3"
    /\ out.op \in {"join", "send"}
    /\ Len(out.acks) = 1
    /\ out.acks[1].success

(* ------------------------------ claim C28 ------------------------------ *)

\* a step of a handler either ends the handler with one ack or leaves it
\* waiting without an ack
EndsOrWaits(before, after) ==
    \/ /\ PendingCount' = PendingCount + after
       /\ out'.acks = << >>
    \/ /\ PendingCount' = PendingCount - before
       /\ Len(out'.acks) = 1

AckDiscipline ==
    /\ (\E op \in {"join", "active", "send"} : GatewayStep(op, "start"))
          => EndsOrWaits(0, 1)
    /\ (\E op \in {"leave", "read"} : GatewayStep(op, "done"))
          => /\ Len(out'.acks) = 1
             /\ pending' = pending
    /\ GatewayStep("send", "check") \/ GatewayStep("send", "store")
          => EndsOrWaits(1, 0)
    /\ (\/ GatewayStep("join", "resume")
        \/ GatewayStep("active", "resume")
        \/ GatewayStep("send", "done"))
          => /\ PendingCount' = PendingCount - 1
             /\ Len(out'.acks) = 1

\* C28: when every group lookup and every save eventually returns or fails,
\* every join, leave, get-active-users, send and read request that came with
\* an ack callback gets exactly one ack: a handler acks once when it ends
\* and not before, and every waiting handler reaches its next step.
C28_EveryRequestIsAckedOnce ==
    /\ [][AckDiscipline]_vars
    /\ \A c \in FailConns, k \in FrameKeys, ok \in BOOLEAN :
          (Frames(c, k, ok) # {}) ~> Served(c, k, ok)

\* a send has passed its three awaits and was acked while nothing waits
C28_Witness ==
    /\ out.op = "send"
    /\ out.step = "done"
    /\ Len(out.acks) = 1
    /\ out.acks[1].success
    /\ pending = EmptyBag

(* ------------------------------ claim C29 ------------------------------ *)

Stored(msg) == \E i \in 1..Len(messages) : messages[i] = msg

\* C29: every message:new broadcast is preceded by the successful save of
\* that message; a send attempts the save at most once, with no retry; and
\* when the save fails the sender gets exactly one failure ack and nothing
\* is broadcast.
C29_BroadcastOnlyAfterSave ==
    [][/\ GatewayStep("send", "done") =>
             /\ out'.calls = << >>
             /\ PendingCount' = PendingCount - 1
             /\ messages' = messages
             /\ \A i \in 1..Len(out'.emits) :
                   /\ out'.emits[i].event = "message:new"
                   /\ Stored(out'.emits[i].msg)
             /\ out'.lookup = "dberror" =>
                   /\ Len(out'.acks) = 1
                   /\ ~out'.acks[1].success
                   /\ out'.emits = << >>
       /\ (\E op \in {"join", "active", "send"},
              step \in {"start", "resume", "check", "store"} :
              GatewayStep(op, step)) =>
             /\ \A i \in 1..Len(out'.emits) :
                   out'.emits[i].event # "message:new"
             /\ (\E i \in 1..Len(out'.calls) : out'.calls[i] = "save") =>
                   /\ out'.op = "send" /\ out'.step = "store"
                   /\ out'.calls = <<"save">>
                   /\ PendingOps("send")' = PendingOps("send")
                   /\ Cardinality({p \in BagToSet(pending') :
                                       p.phase = "store"}) <=
                      Cardinality({p \in BagToSet(pending) :
                                       p.phase = "store"})
      ]_vars

\* a save has failed and the sender was acked the failure while another
\* connection is in the room
C29_Witness ==
    /\ out.op = "send"
    /\ out.step = "done"
    /\ out.lookup = "dberror"
    /\ Len(out.acks) = 1
    /\ out.groupId \in Groups
    /\ rooms[out.groupId] \ {out.conn} # {}

(* ------------------------------ claim C30 ------------------------------ *)

\* C30: when the sender disconnects while its send is in flight, a message
\* that was saved stays saved and is still broadcast as message:new to the
\* other connections in the room; the disconnect itself changes only room
\* membership and the presence map and sends only presence notifications.
C30_DisconnectLeavesSendsAlone ==
    [][/\ Len(messages') >= Len(messages)
       /\ \A i \in 1..Len(messages) : messages'[i] = messages[i]
       /\ GatewayStep("disconnect", "done") =>
             /\ messages' = messages
             /\ pending' = pending
             /\ out'.acks = << >>
             /\ \A i \in 1..Len(out'.emits) :
                   out'.emits[i].event = "user:inactive"
       /\ (/\ GatewayStep("send", "done")
           /\ out'.lookup = "active"
           /\ sockets[out'.conn].state = "closed") =>
             /\ Len(out'.emits) = 1
             /\ out'.emits[1].event = "message:new"
             /\ out'.emits[1].to = rooms[out'.groupId] \ {out'.conn}
             /\ Stored(out'.emits[1].msg)
             /\ \E i \in 1..Len(messages') :
                   messages'[i] = out'.emits[1].msg
      ]_vars

\* a sender's socket has closed, its saved message is in the store and was
\* broadcast to a connection in the room
C30_Witness ==
    /\ out.op = "send"
    /\ out.step = "done"
    /\ out.lookup = "active"
    /\ sockets[out.conn].state = "closed"
    /\ Len(out.emits) = 1
    /\ out.emits[1].to # {}
    /\ Stored(out.emits[1].msg)

(* ------------------------------ claim C31 ------------------------------ *)

\* C31: the identity of a connection is set once, by the handshake, and no
\* join, leave, send, typing, read, active-users or disconnect handler
\* changes it: every event a connection causes carries the userId and the
\* email of the credential it connected with.
C31_IdentityIsFixedAtHandshake ==
    [][/\ \A c \in Conns :
             sockets[c].state # "idle" => sockets'[c].user = sockets[c].user
       /\ out'.op # "init" =>
             LET user == sockets'[out'.conn].user
             IN /\ user.userId = ClientUser(out'.conn)
                /\ user.email = Email(ClientUser(out'.conn))
                /\ \A i \in 1..Len(out'.emits) :
                      /\ out'.emits[i].userId = user.userId
                      /\ out'.emits[i].info.email \in {Undefined, user.email}
                      /\ out'.emits[i].msg # NoMessage =>
                            out'.emits[i].msg.sender = user.userId
      ]_vars

\* after a send of its own was stored, a connection disconnects and the
\* user:inactive event names its user
C31_Witness ==
    /\ out.op = "disconnect"
    /\ Len(out.emits) = 1
    /\ out.emits[1].to # {}
    /\ out.emits[1].userId = ClientUser(out.conn)
    /\ \E i \in 1..Len(messages) : messages[i].sender = ClientUser(out.conn)

(* ------------------------------ claim C32 ------------------------------ *)

\* C32: a connection that has disconnected is in no room from then on and
\* causes no presence entry: a join-group of it that was still waiting for
\* its lookup at the disconnect and completes afterwards adds neither the
\* connection to the room nor the group to the user's presence set, and
\* emits no user:active.
C32_NoJoinAfterDisconnect ==
    [][/\ \A c \in Conns, g \in GroupIds :
             sockets'[c].state = "closed" => c \notin rooms'[g]
       /\ (/\ GatewayStep("join", "resume")
           /\ sockets[out'.conn].state = "closed") =>
             /\ rooms' = rooms
             /\ globalActiveUsers' = globalActiveUsers
             /\ out'.emits = << >>
      ]_vars

(* ------------------------------ claim C33 ------------------------------ *)

\* C33: a user:inactive event for user U and group G goes out only when a
\* connection of U was in room group:G just before the leave or disconnect
\* that causes it; a connection that never joined G, member of G or not,
\* cannot make user:inactive reach the room of G.
C33_InactiveOnlyForJoinedConnections ==
    [][GatewayStep("leave", "done") \/ GatewayStep("disconnect", "done") =>
          \A i \in 1..Len(out'.emits) :
             (out'.emits[i].event = "user:inactive" /\ out'.emits[i].to # {})
                => /\ out'.conn \in rooms[out'.emits[i].groupId]
                   /\ \E d \in rooms[out'.emits[i].groupId] :
                         sockets[d].user.userId = out'.emits[i].userId
      ]_vars

(* ------------------------------ claim C34 ------------------------------ *)

GroupEvents ==
    {"message:new", "user:typing", "user:active", "user:inactive",
     "message:read"}

\* the group an emit of a step is about
ScopeOf(o, e) == IF e.groupId = Undefined THEN o.groupId ELSE e.groupId

\* C34: message:new, user:typing, user:active, user:inactive and
\* message:read of group G are delivered only to connections that are in
\* room group:G when they are broadcast; and a connection enters a room only
\* by a join of its own whose lookup found its user an active member, so a
\* connection whose user no join attempt found active receives none of them.
C34_GroupEventsStayInTheRoom ==
    [][/\ members' = members =>
             \A i \in 1..Len(out'.emits) :
                out'.emits[i].event \in GroupEvents =>
                   out'.emits[i].to \subseteq
                      rooms'[ScopeOf(out', out'.emits[i])]
       /\ \A c \in Conns, g \in GroupIds :
             (c \in rooms'[g] /\ c \notin rooms[g]) =>
                /\ GatewayStep("join", "resume")
                /\ out'.conn = c
                /\ out'.groupId = g
                /\ out'.lookup = "active"
      ]_vars

\* a read receipt reaches the owner's connection in the room of g1 while
\* the connection of a user who is no member is connected and outside
C34_Witness ==
    /\ out.op = "read"
    /\ Len(out.emits) = 1
    /\ out.emits[1].to = {"c1"}
    /\ sockets["c3"].state = "connected"
    /\ members["g1"]["u2"] = "none"
    /\ "c3" \notin rooms["g1"]

(* ------------------------------ claim C35 ------------------------------ *)

\* C35: message:read of group G is broadcast only for a reader who is an
\* active member of G at that time: a read receipt of a connection whose
\* user is not an active member of G, or whose group does not exist,
\* delivers nothing to room group:G.
C35_ReadReceiptsOnlyFromMembers ==
    [][GatewayStep("read", "done") =>
          \A i \in 1..Len(out'.emits) :
             out'.emits[i].to # {} =>
                /\ out'.groupId \in Groups
                /\ IsMember(members[out'.groupId][
                                sockets[out'.conn].user.userId])
      ]_vars

(* ------------------------------ claim C36 ------------------------------ *)

\* C36: the connections in room group:G change only by a connection's own
\* successful join-group, its leave-group or its disconnect; a change of the
\* persisted membership (ban, removal, status change) removes no connection
\* from a room, and a connection that stays in the room is sent message:new
\* of G until it leaves or disconnects.
C36_RoomsChangeOnlyByOwnEvents ==
    [][/\ \A c \in Conns, g \in GroupIds :
             (c \in rooms'[g]) # (c \in rooms[g]) =>
                /\ out'.conn = c
                /\ \/ /\ GatewayStep("join", "resume")
                      /\ out'.groupId = g
                      /\ Len(out'.acks) = 1
                      /\ out'.acks[1].success
                      /\ c \in rooms'[g]
                   \/ /\ GatewayStep("leave", "done")
                      /\ out'.groupId = g
                      /\ c \notin rooms'[g]
                   \/ /\ GatewayStep("disconnect", "done")
                      /\ c \notin rooms'[g]
       /\ members' # members => rooms' = rooms
       /\ (/\ GatewayStep("send", "done")
           /\ Len(out'.acks) = 1
           /\ out'.acks[1].success) =>
             /\ Len(out'.emits) = 1
             /\ out'.emits[1].event = "message:new"
             /\ out'.emits[1].to = rooms[out'.groupId] \ {out'.conn}
      ]_vars

\* message:new reaches a connection that joined the room and whose user has
\* been banned or removed since
C36_Witness ==
    /\ out.op = "send"
    /\ out.step = "done"
    /\ Len(out.emits) = 1
    /\ \E d \in out.emits[1].to :
          /\ d \in rooms[out.groupId]
          /\ members[out.groupId][sockets[d].user.userId] # "active"

(* ------------------------------ claim C37 ------------------------------ *)

\* a join-group of a connected socket has just succeeded
JoinSucceeds ==
    /\ GatewayStep("join", "resume")
    /\ Len(out'.acks) = 1
    /\ out'.acks[1].success
    /\ sockets[out'.conn].state = "connected"

\* C37: join-group is idempotent on state: every successful join only adds
\* the connection to the room's set and the group to the user's presence
\* set, so a successful join of a room by a connection that is already in
\* it, with the group already in the presence set, leaves the rooms and the
\* presence map exactly as they were, and is acked with success.
C37_JoinIsIdempotent ==
    [][JoinSucceeds =>
          LET c == out'.conn
              g == out'.groupId
              u == sockets[c].user.userId
          IN /\ rooms' = [rooms EXCEPT ![g] = @ \cup {c}]
             /\ DOMAIN globalActiveUsers' = DOMAIN globalActiveUsers \cup {u}
             /\ \A v \in DOMAIN globalActiveUsers' :
                   globalActiveUsers'[v] =
                      IF v = u
                      THEN PresenceOf(globalActiveUsers, u) \cup {g}
                      ELSE globalActiveUsers[v]
             /\ (c \in rooms[g] /\ g \in PresenceOf(globalActiveUsers, u))
                   => /\ rooms' = rooms
                      /\ globalActiveUsers' = globalActiveUsers
      ]_vars

\* a join has been acked with success, the user is present in both groups,
\* and another join of the same room by the same connection is waiting
C37_Witness ==
    /\ out.op = "join"
    /\ out.step = "resume"
    /\ Len(out.acks) = 1
    /\ out.acks[1].success
    /\ out.conn \in rooms[out.groupId]
    /\ PresenceOf(globalActiveUsers, sockets[out.conn].user.userId) = Groups
    /\ \E p \in BagToSet(pending) :
          p.op = "join" /\ p.conn = out.conn /\ p.groupId = out.groupId

(* ------------------------------ claim C38 ------------------------------ *)

\* content a comes before content b in the order the client sends them
SentBefore(a, b) ==
    \E i \in 1..Len(OrderContents), j \in 1..Len(OrderContents) :
       i < j /\ OrderContents[i] = a /\ OrderContents[j] = b

\* C38: within one room message:new events are delivered in the order in
\* which the messages were saved, and two sends issued back to back by one
\* connection to one group are broadcast in the order in which the gateway
\* received them: when a message is broadcast, no message of the room saved
\* before it and no send of the same connection received before it is still
\* waiting for its broadcast.
C38_BroadcastsKeepTheOrder ==
    [][(/\ GatewayStep("send", "done")
        /\ Len(out'.emits) = 1
        /\ out'.emits[1].event = "message:new"
        /\ out'.emits[1].to # {}) =>
          LET m == out'.emits[1].msg
          IN \A p \in BagToSet(pending) :
                (p.op = "send" /\ p.groupId = out'.groupId) =>
                   /\ (p.phase = "saved" /\ p.res.ok) => p.msg.id >= m.id
                   /\ p.conn = out'.conn => ~SentBefore(p.content, m.content)
      ]_vars

====
